---- MODULE Spec2Model ----
(***************************************************************************)
(* A model of react-gimbal's Gimbal component (src/src/gimbal.tsx) and of  *)
(* its geometry helpers (src/src/utils.ts).                                *)
(*                                                                         *)
(* The component keeps its engine state in mutable refs (click, mouse,     *)
(* limit, bound), one piece of React state (currentClass), and hands work  *)
(* to the host through setTimeout and requestAnimationFrame.  Each handler *)
(* of the component is one action; the callbacks it schedules are kept in  *)
(* queues and run by their own actions.                                    *)
(***************************************************************************)
EXTENDS Integers, Sequences, FiniteSets, TLC

VARIABLES
    props,          \* the props the instance was constructed with
    click,          \* click.current : DragState
    mouse,          \* mouse.current : MouseState (ACTIVE or IDLE)
    limit,          \* limit.current : <<size, offset>> of the anchor
    bound,          \* bound.current : <<max, min, factor>>
    currentClass,   \* the useState value driving the class name
    timers,         \* pending debounce timeouts of setActive, oldest first
    reverts,        \* number of pending setCurrentClass(idleClass) timeouts
    frames,         \* pending requestAnimationFrame callbacks, oldest first
    out,            \* the onResize invocations made by the last step
    lastEvent,      \* the handler or callback the last step ran
    call,           \* a direct call of a utils.ts function, and its result
    gesture,        \* the events of a followed gesture handled so far
    effect,         \* the bounds effect of the last render is still to run
    depsChanged     \* a dependency of the bounds effect (limit.current,
                    \* divEl.current) was replaced since the last render

vars == <<props, click, mouse, limit, bound, currentClass, timers, reverts,
          frames, out, lastEvent, call, gesture, effect, depsChanged>>

----------------------------------------------------------------------------
(* Bounds of the model.                                                    *)

MaxTimers == 2
MaxReverts == 1
MaxFrames == 2
\* The pixel lengths the model can format lie within -MaxPx .. MaxPx.
MaxPx == 800

----------------------------------------------------------------------------
(* Optional values: an absent (undefined) prop is the empty set, a         *)
(* supplied one a singleton.                                               *)

None == {}
Some(v) == {v}
IsDefined(o) == o # {}
Get(o) == CHOOSE v \in o : TRUE
OrElse(o, d) == IF o = {} THEN d ELSE Get(o)

\* JavaScript truthiness of an optional number: undefined and 0 are falsy.
Truthy(o) == o # {} /\ Get(o) # 0

Rule(pc, px, pf) == [percent |-> pc, pixels |-> px, prefer |-> pf]
NoRule == Rule(None, None, None)

----------------------------------------------------------------------------
(* utils.ts                                                                *)

\* Math.round of the rational n / d, d > 0: the nearest integer, halves up.
MathRound(n, d) == (2 * n + d) \div (2 * d)

\* Math.floor of the rational n / d, d > 0.
MathFloor(n, d) == n \div d

(* IEEE-754 double arithmetic, where it decides a rounding.  The functions  *)
(* below compute Math.round(mult * (n / m)) for integers: the quotient n / m *)
(* is rounded to a double of 53 significant bits before it is multiplied,  *)
(* and the product is rounded again.  Both roundings matter only when the  *)
(* exact product is a half-integer: the double can then lie just below the *)
(* half, and Math.round gives one less than for the exact value.           *)

Abs(n) == IF n < 0 THEN -n ELSE n
Sign(n) == IF n < 0 THEN -1 ELSE IF n > 0 THEN 1 ELSE 0

RECURSIVE PowMod2(_, _)
\* 2^n modulo m.
PowMod2(n, m) == IF n = 0 THEN 1 % m ELSE (2 * PowMod2(n - 1, m)) % m

\* The binary exponent of the positive rational n / m: the k with
\* 2^k <= n / m < 2^(k+1).
Exponent(n, m) ==
    CHOOSE k \in -16 .. 16 :
        IF k >= 0
        THEN m * 2^k <= n /\ n < m * 2^(k + 1)
        ELSE m <= n * 2^(-k) /\ n * 2^(-k - 1) < m

\* The rounding error of the double nearest n / m (n, m > 0), as the
\* numerator d of  double = n / m + (d / m) * 2^(k - 52),  k the exponent.
QuotientError(n, m, k) ==
    LET r == ((n % m) * PowMod2(52 - k, m)) % m
    IN  IF 2 * r < m THEN -r ELSE m - r

\* a * 2^ea > b for a, b >= 0.
ExceedsScaled(a, ea, b) ==
    IF ea >= 0 THEN a * 2^ea > b ELSE a > b * 2^(-ea)

\* Whether the double product of mult and a factor lies strictly below the
\* half-integer H it stands for.  The exact product has sign sgn and
\* magnitude hn / 2 (hn odd); the factor's error, taken on the magnitude,
\* is (d / den) * 2^(k - 52).  The product is rounded to the nearest double:
\* it leaves |H| when mult * |d| / den * 2^(k - 52) exceeds half the spacing
\* of the doubles on that side of |H|.
ProductBelowHalf(sgn, mult, d, den, k, hn) ==
    LET j == Exponent(hn, 2)
        half == IF hn = 1 /\ d < 0 THEN j - 54 ELSE j - 53
        moved == d # 0 /\ ExceedsScaled(mult * Abs(d), k - 52 - half, den)
    IN  moved /\ ((sgn > 0 /\ d < 0) \/ (sgn < 0 /\ d > 0))

\* Math.round(mult * (n / m)) in doubles, for integers mult >= 0, n, m > 0.
RoundOfProduct(mult, n, m) ==
    LET exact == MathRound(mult * n, m)
        twice == 2 * mult * Abs(n)
        isHalf == twice % m = 0 /\ (twice \div m) % 2 = 1
    IN  IF ~isHalf
        THEN exact
        ELSE LET k == Exponent(Abs(n), m)
                 d == QuotientError(Abs(n), m, k)
             IN  IF ProductBelowHalf(Sign(n), mult, d, m, k, twice \div m)
                 THEN exact - 1
                 ELSE exact

\* Math.round(lim * (P / 100)) in doubles, P the double nearest t / 10 for
\* an integer t (a percentage with one decimal), lim >= 0.  P / 100 is
\* rounded once more; the two errors add up to
\* ((d1 * 2^s + 10 * d2) / 1000) * 2^(k2 - 52).
RoundOfTenthsProduct(lim, t) ==
    LET exact == MathRound(lim * t, 1000)
        a == Abs(t)
        twice == 2 * lim * a
        isHalf == twice % 1000 = 0 /\ (twice \div 1000) % 2 = 1
    IN  IF ~isHalf
        THEN exact
        ELSE LET k1 == Exponent(a, 10)
                 d1 == QuotientError(a, 10, k1)
                 mp == ((((a % 1000) * PowMod2(52 - k1, 1000)) + d1) % 1000)
                           \div 10
                 k2 == Exponent(a, 1000)
                 s == k1 - k2
                 r2 == (mp * 2^s) % 100
                 d2 == IF r2 < 50 THEN -r2 ELSE 100 - r2
                 d == d1 * 2^s + 10 * d2
             IN  IF ProductBelowHalf(Sign(t), lim, d, 1000, k2,
                                     twice \div 1000)
                 THEN exact - 1
                 ELSE exact

\* Mutant of getRangedValue: the maximum is tested before the minimum.
getRangedValueMaximumFirst(value, maximum, minimum) ==
    IF value < maximum
    THEN (IF value > minimum THEN value ELSE minimum)
    ELSE maximum

getRangedValue(value, maximum, minimum) ==
    IF value > minimum
    THEN (IF value < maximum THEN value ELSE maximum)
    ELSE minimum

\* Mutant of getSizeAndOffset: a null element measures one pixel.
getSizeAndOffsetNullAsUnit(isVertical, element) ==
    IF element.null
    THEN <<1, 0>>
    ELSE IF isVertical
         THEN <<element.clientHeight, MathFloor(element.top2, 2)>>
         ELSE <<element.clientWidth, MathFloor(element.left2, 2)>>

\* An element is a record of its client size and of its bounding rectangle's
\* leading edges, the latter in half pixels (they need not be whole).
getSizeAndOffset(isVertical, element) ==
    IF element.null
    THEN <<0, 0>>
    ELSE IF isVertical
         THEN <<element.clientHeight, MathFloor(element.top2, 2)>>
         ELSE <<element.clientWidth, MathFloor(element.left2, 2)>>

\* Math.round(limit * (percentage / 100)), for an integer percentage.
getPixelsFromPercentage(percentage, lim) ==
    RoundOfProduct(lim, percentage, 100)

\* A JavaScript number that a conversion returns: finite with an integer
\* value (a percentage is held in tenths of a percent, pixels as they are),
\* or NaN, or an infinity.
Finite(v) == [kind |-> "finite", value |-> v]
NaN == [kind |-> "NaN", value |-> 0]
Infinity == [kind |-> "Infinity", value |-> 0]
NegativeInfinity == [kind |-> "-Infinity", value |-> 0]

\* Mutant of getPercentageFromPixels: rounded to a whole percent.
getPercentageFromPixelsWhole(pixels, lim) ==
    IF lim = 0
    THEN (IF pixels = 0 THEN NaN ELSE Infinity)
    ELSE Finite(10 * MathRound(100 * pixels, lim))

\* Math.round((pixels / limit) * 1000) / 10, for limit >= 0: a percentage
\* with one decimal, in tenths; 0 / 0 is NaN, pixels / 0 an infinity.
getPercentageFromPixels(pixels, lim) ==
    IF lim = 0
    THEN (IF pixels = 0 THEN NaN
          ELSE IF pixels > 0 THEN Infinity ELSE NegativeInfinity)
    ELSE Finite(RoundOfProduct(1000, pixels, lim))

\* getPixelsFromPercentage applied to such a percentage, limit >= 0:
\* limit * (NaN / 100) is NaN, 0 * Infinity is NaN.
getPixelsFromPercentageNumber(percentage, lim) ==
    IF percentage.kind = "NaN" THEN NaN
    ELSE IF percentage.kind = "finite"
         THEN Finite(RoundOfTenthsProduct(lim, percentage.value))
         ELSE IF lim = 0 THEN NaN ELSE percentage

\* Mutant of getPreferredValue: the larger value whatever the preference.
getPreferredValueAlwaysLarger(valueA, valueB, preferLarger) ==
    IF valueA > valueB THEN valueA ELSE valueB

getPreferredValue(valueA, valueB, preferLarger) ==
    IF preferLarger
    THEN (IF valueA > valueB THEN valueA ELSE valueB)
    ELSE (IF valueA > valueB THEN valueB ELSE valueA)

getAbsoluteBounds(isReverse, absoluteLimit, gimbalOffset, maxPx, minPx, maxPc, minPc, preferredMax, preferredMin) ==
    LET absoluteMaxPx == OrElse(maxPx, absoluteLimit)
        absoluteMinPx == OrElse(minPx, 0)
        relativeMaxPc == OrElse(maxPc, 100)
        relativeMinPc == OrElse(minPc, 0)
        absoluteMaxPc == getPixelsFromPercentage(relativeMaxPc, absoluteLimit)
        absoluteMinPc == getPixelsFromPercentage(relativeMinPc, absoluteLimit)
        maximum == getPreferredValue(absoluteMaxPc, absoluteMaxPx,
                                     preferredMax = "pixels")
        minimum == getPreferredValue(absoluteMinPc, absoluteMinPx,
                                     preferredMin = "percent")
        validatedMaximum ==
            IF maximum > absoluteLimit THEN absoluteLimit ELSE maximum
        validatedMinimum == IF minimum > 0 THEN minimum ELSE 0
    IN  << IF isReverse THEN absoluteLimit - validatedMinimum
                        ELSE validatedMaximum,
           IF isReverse THEN absoluteLimit - validatedMaximum
                        ELSE validatedMinimum,
           gimbalOffset >>

\* The template literal `${n}px`.
Px(n) == ToString(n) \o "px"

\* Mutant of getOffsets: "after" is taken from the maximum, not the limit.
getOffsetsAfterFromMaximum(lim, position, maximum, minimum, factor) ==
    LET offset == getRangedValue(position, maximum, minimum) - factor
    IN  [after |-> Px(maximum - offset), before |-> Px(offset)]

getOffsets(lim, position, maximum, minimum, factor) ==
    LET offset == getRangedValue(position, maximum, minimum) - factor
    IN  [after |-> Px(lim - offset), before |-> Px(offset)]

\* The number a formatted pixel length stands for.
PxTable == [n \in -MaxPx .. MaxPx |-> Px(n)]
PxParse ==
    [s \in {PxTable[n] : n \in -MaxPx .. MaxPx} |->
        CHOOSE n \in -MaxPx .. MaxPx : PxTable[n] = s]
PxValue(s) == PxParse[s]

----------------------------------------------------------------------------
(* The inputs of the model: the props an instance is constructed with, the *)
(* elements the host can present as the anchor, and the pointer events.    *)

Element(w, h, l2, t2) ==
    [null |-> FALSE, clientWidth |-> w, clientHeight |-> h,
     left2 |-> l2, top2 |-> t2]
NullElement ==
    [null |-> TRUE, clientWidth |-> 0, clientHeight |-> 0,
     left2 |-> 0, top2 |-> 0]

\* What the anchor can measure as, at mount and at each window resize.
Anchors ==
    { Element(500, 300, 0, 0),
      Element(400, 240, 41, 21) }

Props(dir, maxR, minR, defR, handle, anchorNull) ==
    [direction |-> dir, maximum |-> maxR, minimum |-> minR,
     defaultPosition |-> defR, divEl |-> handle, anchorNull |-> anchorNull]

Configs ==
    { Props("horizontal", Rule(Some(80), None, None),
            Rule(None, Some(50), None), NoRule,
            Element(0, 0, 0, 0), FALSE),
      Props("horizontal", NoRule, NoRule, Rule(Some(50), None, None),
            Element(0, 0, 0, 0), FALSE),
      Props("horizontal", NoRule, Rule(Some(10), None, None),
            Rule(None, Some(0), None),
            Element(10, 300, 0, 0), FALSE),
      Props("horizontal-reverse", Rule(Some(80), Some(300), Some("pixels")),
            Rule(Some(10), None, None), Rule(None, Some(120), None),
            Element(10, 300, 0, 0), FALSE),
      Props("vertical", Rule(None, Some(200), None),
            Rule(Some(10), Some(20), Some("percent")),
            Rule(Some(0), None, None),
            Element(500, 7, 0, 0), FALSE),
      Props("vertical-reverse", Rule(Some(90), None, None),
            Rule(None, None, None), Rule(Some(0), Some(120), None),
            Element(500, 0, 0, 0), FALSE),
      \* the anchor ref holds null
      Props("horizontal", Rule(Some(80), None, None),
            Rule(Some(10), None, None), Rule(Some(50), None, None),
            Element(0, 0, 0, 0), TRUE),
      Props("horizontal", NoRule, NoRule, Rule(Some(50), None, None),
            Element(10, 300, 0, 0), TRUE) }

\* Pointer events: the coordinates of a mousemove.
MouseEvents ==
    { [clientX |-> 700, clientY |-> 400] }

----------------------------------------------------------------------------
(* gimbal.tsx                                                              *)

isReverse == props.direction \in {"horizontal-reverse", "vertical-reverse"}
isVertical == props.direction \in {"vertical", "vertical-reverse"}

getSizeOf(element) == getSizeAndOffset(isVertical, element)

getResizedValues(position) ==
    getOffsets(limit[1], position - limit[1], bound[1], bound[2], bound[3])

\* maximum.prefer || (maximum.pixels === undefined ? 'percent' : 'pixels')
Preferred(rule) ==
    IF IsDefined(rule.prefer)
    THEN Get(rule.prefer)
    ELSE IF rule.pixels = None THEN "percent" ELSE "pixels"

\* The effect that resolves the bounds, run against the measured limit lim.
BoundsEffect(lim) ==
    LET divElOffset == getSizeOf(props.divEl)[1]
        gimbalOffset ==
            IF divElOffset # 0 THEN MathFloor(divElOffset, 2) ELSE 0
    IN  getAbsoluteBounds(isReverse, lim[1] + gimbalOffset, gimbalOffset,
                          props.maximum.pixels, props.minimum.pixels,
                          props.maximum.percent, props.minimum.percent,
                          Preferred(props.maximum), Preferred(props.minimum))

\* A render of the component.  React first runs the bounds effect left
\* pending by the previous render; the new render then leaves the effect
\* pending when one of its dependencies was replaced since the last render.
\* The effect itself runs later, in a task of its own.
Rerender ==
    /\ bound' = IF effect THEN BoundsEffect(limit) ELSE bound
    /\ effect' = depsChanged
    /\ depsChanged' = FALSE

\* setCurrentClass(cls): a changed state value re-renders the component.
SetCurrentClass(cls) ==
    /\ currentClass' = cls
    /\ IF cls # currentClass
       THEN Rerender
       ELSE UNCHANGED <<bound, effect, depsChanged>>

\* Every pending debounce timeout carries a note of whether click.current
\* has changed since it was scheduled.
NoteClick(q, new) ==
    IF new # click THEN [i \in DOMAIN q |-> TRUE] ELSE q

\* The double-click gesture on the handle, as the events its handlers see.
DoubleClickGesture ==
    <<"GIMBAL_DOWN", "GLOBAL_UP", "GIMBAL_DOWN", "GLOBAL_UP", "dblclick">>

\* No gesture is being followed.
NoGesture == <<"none">>

\* The followed gesture after the handler of event has run: the event is
\* added when it is the gesture's next one.
Advance(g, event) ==
    IF /\ Len(g) < Len(DoubleClickGesture)
       /\ g = SubSeq(DoubleClickGesture, 1, Len(g))
       /\ event = DoubleClickGesture[Len(g) + 1]
    THEN Append(g, event)
    ELSE g

\* The component makes no direct call of its own: call stays empty.
NoCall == [fn |-> "none", args |-> <<>>, done |-> TRUE, result |-> <<>>]

Init ==
    /\ props \in Configs
    /\ click = "IDLE"
    /\ mouse = "IDLE"
    /\ \E a \in Anchors :
          limit = getSizeAndOffset(
                      props.direction \in {"vertical", "vertical-reverse"},
                      IF props.anchorNull THEN NullElement ELSE a)
    /\ bound = BoundsEffect(limit)
    /\ currentClass = "idle"
    /\ timers = <<>>
    /\ reverts = 0
    /\ frames = <<>>
    /\ out = <<>>
    /\ lastEvent = "mount"
    /\ call = NoCall
    /\ gesture = NoGesture
    /\ effect = FALSE
    /\ depsChanged = TRUE

\* Mutant of setActive: click.current is not put back to WAIT.
setActiveKeepsClick ==
    /\ mouse' = "ACTIVE"
    /\ SetCurrentClass("active")
    /\ timers' = Append(timers, FALSE)
    /\ UNCHANGED <<click, reverts>>

\* setActive, with the class change it requests.
setActive ==
    /\ click' = "WAIT"
    /\ mouse' = "ACTIVE"
    /\ SetCurrentClass("active")
    /\ timers' = Append(NoteClick(timers, "WAIT"), FALSE)
    /\ UNCHANGED reverts

\* Mutant of setIdle: click.current is reset along with mouse.current.
setIdleResetsClick ==
    /\ mouse' = "IDLE"
    /\ click' = "IDLE"
    /\ timers' = NoteClick(timers, "IDLE")
    /\ reverts' = reverts + 1
    /\ UNCHANGED <<currentClass, bound, effect, depsChanged>>

\* setIdle: the class change is left to a 10 ms timeout.
setIdle ==
    /\ mouse' = "IDLE"
    /\ reverts' = reverts + 1
    /\ UNCHANGED <<click, timers, currentClass, bound, effect, depsChanged>>

\* handleMouseEvent(MouseState.GIMBAL_DOWN): a press on the handle.
GimbalDown ==
    /\ mouse = "IDLE" => Len(timers) < MaxTimers
    /\ IF mouse = "IDLE"
       THEN setActive
       ELSE UNCHANGED <<click, mouse, currentClass, bound, effect, depsChanged, timers, reverts>>
    /\ out' = <<>>
    /\ lastEvent' = "GIMBAL_DOWN"
    /\ gesture' = Advance(gesture, "GIMBAL_DOWN")
    /\ UNCHANGED <<call, props, limit, frames>>

\* Mutant of GlobalUp: a release in WAIT promotes to DRAG and deactivates.
GlobalUpDeactivates ==
    /\ mouse = "ACTIVE" => reverts < MaxReverts
    /\ IF mouse # "ACTIVE"
       THEN UNCHANGED <<click, mouse, currentClass, bound, effect, depsChanged, timers, reverts>>
       ELSE IF click = "WAIT"
            THEN /\ click' = "DRAG"
                 /\ timers' = NoteClick(timers, "DRAG")
                 /\ mouse' = "IDLE"
                 /\ reverts' = reverts + 1
                 /\ UNCHANGED <<currentClass, bound, effect, depsChanged>>
            ELSE setIdle
    /\ out' = <<>>
    /\ lastEvent' = "GLOBAL_UP"
    /\ gesture' = Advance(gesture, "GLOBAL_UP")
    /\ UNCHANGED <<call, props, limit, frames>>

\* Mutant of GlobalUp: a release in WAIT reports the resting position.
GlobalUpEmits ==
    /\ (mouse = "ACTIVE" /\ click # "WAIT") => reverts < MaxReverts
    /\ IF mouse # "ACTIVE"
       THEN /\ out' = <<>>
            /\ UNCHANGED <<click, mouse, currentClass, bound, effect, depsChanged, timers,
                           reverts>>
       ELSE IF click = "WAIT"
            THEN /\ click' = "DRAG"
                 /\ timers' = NoteClick(timers, "DRAG")
                 /\ out' = << [values |-> getResizedValues(limit[1]),
                               measured |-> limit[1],
                               source |-> "move"] >>
                 /\ UNCHANGED <<mouse, currentClass, bound, effect, depsChanged, reverts>>
            ELSE /\ out' = <<>>
                 /\ setIdle
    /\ lastEvent' = "GLOBAL_UP"
    /\ gesture' = Advance(gesture, "GLOBAL_UP")
    /\ UNCHANGED <<call, props, limit, frames>>

\* handleMouseEvent(MouseState.GLOBAL_UP): a release anywhere.
GlobalUp ==
    /\ (mouse = "ACTIVE" /\ click # "WAIT") => reverts < MaxReverts
    /\ IF mouse # "ACTIVE"
       THEN UNCHANGED <<click, mouse, currentClass, bound, effect, depsChanged, timers, reverts>>
       ELSE IF click = "WAIT"
            THEN /\ click' = "DRAG"
                 /\ timers' = NoteClick(timers, "DRAG")
                 /\ UNCHANGED <<mouse, currentClass, bound, effect, depsChanged, reverts>>
            ELSE setIdle
    /\ out' = <<>>
    /\ lastEvent' = "GLOBAL_UP"
    /\ gesture' = Advance(gesture, "GLOBAL_UP")
    /\ UNCHANGED <<call, props, limit, frames>>

\* Mutant of GlobalDown: a press elsewhere cancels only a confirmed drag.
GlobalDownOnlyWhenDragging ==
    /\ (mouse = "ACTIVE" /\ click = "DRAG") => reverts < MaxReverts
    /\ IF mouse = "ACTIVE" /\ click = "DRAG"
       THEN setIdle
       ELSE UNCHANGED <<click, mouse, currentClass, bound, effect, depsChanged, timers, reverts>>
    /\ out' = <<>>
    /\ lastEvent' = "GLOBAL_DOWN"
    /\ gesture' = Advance(gesture, "GLOBAL_DOWN")
    /\ UNCHANGED <<call, props, limit, frames>>

\* handleMouseEvent(MouseState.GLOBAL_DOWN): a press that is not on the
\* handle (the handle's own press stops its propagation).
GlobalDown ==
    /\ mouse = "ACTIVE" => reverts < MaxReverts
    /\ IF mouse = "ACTIVE"
       THEN setIdle
       ELSE UNCHANGED <<click, mouse, currentClass, bound, effect, depsChanged, timers, reverts>>
    /\ out' = <<>>
    /\ lastEvent' = "GLOBAL_DOWN"
    /\ gesture' = Advance(gesture, "GLOBAL_DOWN")
    /\ UNCHANGED <<call, props, limit, frames>>

\* The timeout callback of setActive; timeouts of one delay run in order.
DebounceTimeout ==
    /\ timers # <<>>
    /\ click' = IF click = "WAIT" THEN "IDLE" ELSE click
    /\ timers' = NoteClick(Tail(timers), click')
    /\ out' = <<>>
    /\ lastEvent' = "timeout"
    /\ gesture' = Advance(gesture, "timeout")
    /\ UNCHANGED <<call, props, mouse, limit, bound, effect, depsChanged, currentClass, reverts, frames>>

\* The timeout callback of setIdle.
RevertTimeout ==
    /\ reverts > 0
    /\ reverts' = reverts - 1
    /\ SetCurrentClass("idle")
    /\ out' = <<>>
    /\ lastEvent' = "revert"
    /\ gesture' = Advance(gesture, "revert")
    /\ UNCHANGED <<call, props, click, mouse, limit, timers, frames>>

\* Mutant of MouseMove: a frame is requested whether Active or not.
MouseMoveUnguarded(event) ==
    /\ Len(frames) < MaxFrames
    /\ LET values == getResizedValues(
               IF isVertical THEN event.clientY ELSE event.clientX)
       IN  frames' = Append(frames,
               [values |-> values, measured |-> limit[1],
                source |-> "move"])
    /\ out' = <<>>
    /\ lastEvent' = "mousemove"
    /\ gesture' = Advance(gesture, "mousemove")
    /\ UNCHANGED <<call, props, click, mouse, limit, bound, effect, depsChanged, currentClass,
                   timers, reverts>>

\* handleMouseMovement.
MouseMove(event) ==
    /\ mouse # "IDLE" => Len(frames) < MaxFrames
    /\ IF mouse = "IDLE"
       THEN UNCHANGED frames
       ELSE LET values == getResizedValues(
                    IF isVertical THEN event.clientY ELSE event.clientX)
            IN  frames' = Append(frames,
                    [values |-> values, measured |-> limit[1],
                     source |-> "move"])
    /\ out' = <<>>
    /\ lastEvent' = "mousemove"
    /\ gesture' = Advance(gesture, "mousemove")
    /\ UNCHANGED <<call, props, click, mouse, limit, bound, effect, depsChanged, currentClass, timers,
                   reverts>>

\* The next animation frame: every callback requested since the last frame
\* runs, in the order requested, each delivering its values to onResize.
AnimationFrame ==
    /\ frames # <<>>
    /\ out' = frames
    /\ frames' = <<>>
    /\ lastEvent' = "frame"
    /\ gesture' = Advance(gesture, "frame")
    /\ UNCHANGED <<call, props, click, mouse, limit, bound, effect, depsChanged, currentClass, timers,
                   reverts>>

\* handleWindowResize: the anchor is measured again.
WindowResize(element) ==
    /\ limit' = getSizeOf(IF props.anchorNull THEN NullElement ELSE element)
    /\ depsChanged' = TRUE
    /\ out' = <<>>
    /\ lastEvent' = "resize"
    /\ gesture' = Advance(gesture, "resize")
    /\ UNCHANGED <<call, props, click, mouse, bound, effect, currentClass, timers, reverts,
                   frames>>

\* handleDoubleClick.
handleDoubleClick ==
    LET d == props.defaultPosition
    IN  /\ click' = "IDLE"
        /\ timers' = NoteClick(timers, "IDLE")
        /\ IF ~(Truthy(d.percent) \/ Truthy(d.pixels))
           THEN out' = <<>>
           ELSE LET position ==
                        IF IsDefined(d.pixels)
                        THEN Get(d.pixels)
                        ELSE getPixelsFromPercentage(
                                 OrElse(d.percent, 50), limit[1])
                IN  out' = << [values |-> getResizedValues(position),
                               measured |-> limit[1],
                               source |-> "dblclick"] >>
        /\ lastEvent' = "dblclick"
        /\ gesture' = Advance(gesture, "dblclick")
        /\ UNCHANGED <<call, props, mouse, limit, bound, effect, depsChanged, currentClass, reverts,
                       frames>>

\* The task in which React runs the pending bounds effect: the bounds are
\* resolved against limit.current as it is by then.
RunEffect ==
    /\ effect
    /\ bound' = BoundsEffect(limit)
    /\ effect' = FALSE
    /\ out' = <<>>
    /\ lastEvent' = "effect"
    /\ gesture' = Advance(gesture, "effect")
    /\ UNCHANGED <<call, props, click, mouse, limit, depsChanged, currentClass,
                   timers, reverts, frames>>

\* The host renders the component again, with the same props.
Render ==
    /\ Rerender
    /\ out' = <<>>
    /\ lastEvent' = "render"
    /\ gesture' = Advance(gesture, "render")
    /\ UNCHANGED <<call, props, click, mouse, limit, currentClass, timers,
                   reverts, frames>>

Next ==
    \/ GimbalDown
    \/ GlobalUp
    \/ GlobalDown
    \/ DebounceTimeout
    \/ RevertTimeout
    \/ \E event \in MouseEvents : MouseMove(event)
    \/ AnimationFrame
    \/ \E element \in Anchors : WindowResize(element)
    \/ handleDoubleClick
    \/ RunEffect
    \/ Render

Spec == Init /\ [][Next]_vars

----------------------------------------------------------------------------
(* Direct calls of the utils.ts functions: the arguments are drawn from    *)
(* bounded sets, and one action per function applies it.                   *)

\* What a caller can pass for preferredMax or preferredMin; "undefined"
\* stands for the omitted argument.
Preferences == {"pixels", "percent", "undefined"}

BoundsCalls ==
    { [fn |-> "getAbsoluteBounds",
       args |-> [isReverse |-> r, absoluteLimit |-> l, gimbalOffset |-> g,
                 maxPx |-> xp, minPx |-> np, maxPc |-> xc, minPc |-> nc,
                 preferredMax |-> pm, preferredMin |-> pn],
       done |-> FALSE, result |-> <<>>] :
        r \in BOOLEAN, l \in {0, 300, 500}, g \in {0, 5},
        xp \in {None, Some(-20), Some(200), Some(700)},
        np \in {None, Some(-20), Some(50), Some(600)},
        xc \in {None, Some(80), Some(120)},
        nc \in {None, Some(10), Some(-10)},
        pm \in Preferences, pn \in Preferences }

\* Calls of getOffsets, with bounds in order and with minimum > maximum.
OffsetsCalls ==
    { [fn |-> "getOffsets",
       args |-> [limit |-> l, position |-> p, maximum |-> x, minimum |-> n,
                 factor |-> f],
       done |-> FALSE, result |-> <<>>] :
        l \in {500}, p \in {-300, 0, 100, 200, 300, 450, 700},
        x \in {100, 400}, n \in {50, 300}, f \in {0, 5} }

\* Container limits of the conversion calls, and every pixel length within
\* each of them.
ConversionLimits ==
    {0, 1, 2, 3, 7, 25, 50, 100, 333, 400, 1000, 1075, 1920, 2000, 3000,
     3001, 3840}

ConversionCalls ==
    { [fn |-> "getPercentageFromPixels",
       args |-> [pixels |-> p, limit |-> l],
       done |-> FALSE, result |-> <<>>] :
        p \in 0 .. 3840, l \in ConversionLimits }

Calls ==
    BoundsCalls \cup OffsetsCalls
        \cup {c \in ConversionCalls : c.args.pixels <= c.args.limit}

\* The component the functions are called beside is mounted and at rest.
InitFn ==
    /\ call \in Calls
    /\ props = Props("horizontal", NoRule, NoRule, NoRule,
                     Element(0, 0, 0, 0), FALSE)
    /\ click = "IDLE"
    /\ mouse = "IDLE"
    /\ limit = getSizeAndOffset(FALSE, Element(500, 300, 0, 0))
    /\ bound = BoundsEffect(limit)
    /\ currentClass = "idle"
    /\ timers = <<>>
    /\ reverts = 0
    /\ frames = <<>>
    /\ out = <<>>
    /\ lastEvent = "mount"
    /\ gesture = NoGesture
    /\ effect = FALSE
    /\ depsChanged = TRUE

Return(value) ==
    /\ call' = [call EXCEPT !.done = TRUE, !.result = value]
    /\ UNCHANGED <<props, click, mouse, limit, bound, effect, depsChanged, currentClass, timers,
                   reverts, frames, out, lastEvent, gesture>>

CallGetAbsoluteBounds ==
    /\ call.fn = "getAbsoluteBounds"
    /\ ~call.done
    /\ LET a == call.args
       IN  Return(getAbsoluteBounds(a.isReverse, a.absoluteLimit,
                                    a.gimbalOffset, a.maxPx, a.minPx,
                                    a.maxPc, a.minPc, a.preferredMax,
                                    a.preferredMin))

CallGetOffsets ==
    /\ call.fn = "getOffsets"
    /\ ~call.done
    /\ LET a == call.args
       IN  Return(getOffsets(a.limit, a.position, a.maximum, a.minimum,
                             a.factor))

\* getPercentageFromPixels, its result handed on to getPixelsFromPercentage
\* with the same limit; args.of keeps the pixels the percentage came from.
CallGetPercentageFromPixels ==
    /\ call.fn = "getPercentageFromPixels"
    /\ ~call.done
    /\ LET a == call.args
       IN  call' = [fn |-> "getPixelsFromPercentage",
                    args |-> [percentage |->
                                  getPercentageFromPixels(a.pixels, a.limit),
                              limit |-> a.limit, of |-> a.pixels],
                    done |-> FALSE, result |-> <<>>]
    /\ UNCHANGED <<props, click, mouse, limit, bound, effect, depsChanged, currentClass, timers,
                   reverts, frames, out, lastEvent, gesture>>

CallGetPixelsFromPercentage ==
    /\ call.fn = "getPixelsFromPercentage"
    /\ ~call.done
    /\ Return(getPixelsFromPercentageNumber(call.args.percentage,
                                            call.args.limit))

NextFn ==
    \/ CallGetAbsoluteBounds
    \/ CallGetOffsets
    \/ CallGetPercentageFromPixels
    \/ CallGetPixelsFromPercentage

SpecFn == InitFn /\ [][NextFn]_vars

----------------------------------------------------------------------------
(* One double-click gesture on the handle of a freshly mounted component:  *)
(* its five events are handled in order, the timeouts the handlers         *)
(* schedule run at any point between and after them, and pointer-moves     *)
(* follow the gesture.                                                     *)

InitGesture ==
    /\ props \in Configs
    /\ click = "IDLE"
    /\ mouse = "IDLE"
    /\ \E a \in Anchors :
          limit = getSizeAndOffset(
                      props.direction \in {"vertical", "vertical-reverse"},
                      IF props.anchorNull THEN NullElement ELSE a)
    /\ bound = BoundsEffect(limit)
    /\ currentClass = "idle"
    /\ timers = <<>>
    /\ reverts = 0
    /\ frames = <<>>
    /\ out = <<>>
    /\ lastEvent = "mount"
    /\ call = NoCall
    /\ gesture = <<>>
    /\ effect = FALSE
    /\ depsChanged = TRUE

\* The gesture's next event is the given one.
Expected(event) == Advance(gesture, event) # gesture

GestureGimbalDown == Expected("GIMBAL_DOWN") /\ GimbalDown
GestureGlobalUp == Expected("GLOBAL_UP") /\ GlobalUp
GestureDoubleClick == Expected("dblclick") /\ handleDoubleClick
GestureMouseMove(event) == gesture = DoubleClickGesture /\ MouseMove(event)

NextGesture ==
    \/ GestureGimbalDown
    \/ GestureGlobalUp
    \/ GestureDoubleClick
    \/ DebounceTimeout
    \/ RevertTimeout
    \/ \E event \in MouseEvents : GestureMouseMove(event)
    \/ AnimationFrame
    \/ RunEffect

SpecGesture == InitGesture /\ [][NextGesture]_vars

----------------------------------------------------------------------------
(* Claims.                                                                 *)

\* The active-axis coordinate handleMouseMovement reads from an event.
Coordinate(event) == IF isVertical THEN event.clientY ELSE event.clientX

\* clamp(v, lo, hi) as the specification uses it.
Clamp(v, lo, hi) == IF v < lo THEN lo ELSE IF v > hi THEN hi ELSE v

\* C1: every pointer-move handled while Active computes, for the pointer
\* coordinate p, before = clamp(p - leadingOffset, minimum, maximum) - offset
\* and after = containerSize - before, leadingOffset being the anchor's
\* measured leading-edge offset (limit[2]), not its size.
C1_MoveSubtractsLeadingOffset ==
    [][ \A event \in MouseEvents :
          (mouse = "ACTIVE" /\ MouseMove(event)) =>
             LET before == Clamp(Coordinate(event) - limit[2],
                                 bound[2], bound[1]) - bound[3]
             IN  frames'[Len(frames')].values =
                    [after |-> Px(limit[1] - before), before |-> Px(before)]
      ]_vars

\* C2 (as claimed): the before and after of every event delivered to
\* onResize sum to the container size as measured when it is delivered.
C2_SumIsCurrentSize ==
    \A i \in DOMAIN out :
        PxValue(out[i].values.before) + PxValue(out[i].values.after)
            = limit[1]

\* C2 (amended): the before and after of every event delivered to onResize
\* sum to the container size that was measured when the event was computed
\* (for a pointer-move, when the move was handled).
C2_SumIsSizeWhenComputed ==
    \A i \in DOMAIN out :
        PxValue(out[i].values.before) + PxValue(out[i].values.after)
            = out[i].measured

\* C2 witness: one frame has delivered the events of two moves, the first
\* computed before a window resize changed the measured size, the second
\* after it.
C2_Witness ==
    /\ lastEvent = "frame"
    /\ Len(out) = 2
    /\ out[1].measured # limit[1]
    /\ out[2].measured = limit[1]

\* C3 (as claimed): ActivationState is Active iff DragState is not Idle.
C3_ActiveIffNotIdle == (mouse = "ACTIVE") <=> (click # "IDLE")

\* C3 (amended): the two are tied only at activation.  A step turns
\* ActivationState from Idle to Active only while setting DragState to
\* Wait, and DragState enters Wait only in such a step; afterwards each
\* changes without the other.
C3_ActivationSetsWait ==
    [][ /\ (mouse = "IDLE" /\ mouse' = "ACTIVE") => click' = "WAIT"
        /\ (click # "WAIT" /\ click' = "WAIT") =>
               (mouse = "IDLE" /\ mouse' = "ACTIVE")
      ]_vars

\* C3 witness: a press on the handle has just activated the gimbal while
\* the debounce timer of an earlier press is still pending.
C3_Witness ==
    /\ lastEvent = "GIMBAL_DOWN"
    /\ mouse = "ACTIVE"
    /\ click = "WAIT"
    /\ Len(timers) = 2

\* C4 (as claimed): a global pointer-up handled in Wait/Active promotes
\* DragState to Dragging and leaves ActivationState Idle.
C4_UpInWaitDeactivates ==
    [][ (mouse = "ACTIVE" /\ click = "WAIT" /\ lastEvent' = "GLOBAL_UP") =>
            (click' = "DRAG" /\ mouse' = "IDLE")
      ]_vars

\* C4 (amended): a global pointer-up handled in Wait/Active promotes
\* DragState to Dragging and leaves ActivationState Active, scheduling no
\* deactivation; in Dragging/Active every pointer-move still requests a
\* frame that emits, and only a further global pointer-up or a global
\* pointer-down deactivates the gimbal.
C4_UpInWaitStaysActive ==
    [][ /\ (mouse = "ACTIVE" /\ click = "WAIT" /\ lastEvent' = "GLOBAL_UP")
              => (click' = "DRAG" /\ mouse' = "ACTIVE" /\ reverts' = reverts)
        /\ (mouse = "ACTIVE" /\ click = "DRAG" /\ lastEvent' = "mousemove")
              => Len(frames') = Len(frames) + 1
        /\ (mouse = "ACTIVE" /\ click = "DRAG" /\ mouse' = "IDLE")
              => lastEvent' \in {"GLOBAL_UP", "GLOBAL_DOWN"}
      ]_vars

\* C4 witness: after a pointer-up in Wait/Active the gimbal is still
\* Dragging/Active and a frame has delivered the event of a later move.
C4_Witness ==
    /\ click = "DRAG"
    /\ mouse = "ACTIVE"
    /\ lastEvent = "frame"
    /\ Len(out) = 1
    /\ out[1].source = "move"

\* C5 (as claimed): a global pointer-up handled in Dragging/Active leaves
\* both ActivationState and DragState Idle.
C5_UpInDragIdlesBoth ==
    [][ (mouse = "ACTIVE" /\ click = "DRAG" /\ lastEvent' = "GLOBAL_UP") =>
            (mouse' = "IDLE" /\ click' = "IDLE")
      ]_vars

\* C5 (amended): a global pointer-up handled in Dragging/Active leaves
\* ActivationState Idle and DragState Dragging.
C5_UpInDragIdlesActivation ==
    [][ (mouse = "ACTIVE" /\ click = "DRAG" /\ lastEvent' = "GLOBAL_UP") =>
            (mouse' = "IDLE" /\ click' = "DRAG" /\ reverts' = reverts + 1)
      ]_vars

\* C5 witness: the pointer-up has been handled in Dragging/Active.
C5_Witness ==
    /\ lastEvent = "GLOBAL_UP"
    /\ mouse = "IDLE"
    /\ click = "DRAG"
    /\ reverts = 1

\* C6: onResize is invoked at most once per animation frame, however many
\* pointer-moves were handled while Active since the last frame.
C6_OneEmissionPerFrame == lastEvent = "frame" => Len(out) <= 1

\* The props of the bounds scenario: maximum={percent:80},
\* minimum={pixels:50}, no prefer, a non-reversed axis, a handle of no
\* thickness.
ScenarioBoundsProps ==
    Props("horizontal", Rule(Some(80), None, None),
          Rule(None, Some(50), None), NoRule, Element(0, 0, 0, 0), FALSE)

\* C7: with those props and a container of size 500 the component resolves
\* the bounds maximum=400, minimum=50.
C7_ScenarioBounds ==
    (props = ScenarioBoundsProps /\ lastEvent = "mount" /\ limit[1] = 500)
        => (bound[1] = 400 /\ bound[2] = 50)

\* The props of the reset scenario: default={percent:50}, no minimum or
\* maximum rule, a handle of no thickness.
ScenarioResetProps ==
    Props("horizontal", NoRule, NoRule, Rule(Some(50), None, None),
          Element(0, 0, 0, 0), FALSE)

\* C8: with those props and a 500-wide container, a double-click emits
\* exactly the event {before: "250px", after: "250px"}.
C8_ScenarioReset ==
    (props = ScenarioResetProps /\ lastEvent = "dblclick" /\ limit[1] = 500
        /\ bound = BoundsEffect(limit))
        => /\ Len(out) = 1
           /\ out[1].values = [after |-> "250px", before |-> "250px"]

\* C9: a double-click emits exactly when default.percent or default.pixels
\* is supplied (0 included), for the position default.pixels when supplied
\* and otherwise default.percent converted against the container size.
C9_ResetWhenSupplied ==
    lastEvent = "dblclick" =>
        LET d == props.defaultPosition
            position == IF IsDefined(d.pixels)
                        THEN Get(d.pixels)
                        ELSE getPixelsFromPercentage(Get(d.percent), limit[1])
        IN  IF IsDefined(d.percent) \/ IsDefined(d.pixels)
            THEN /\ Len(out) = 1
                 /\ out[1].values = getResizedValues(position)
            ELSE out = <<>>

\* C10: from Idle/Idle, neither the press on the handle nor the global
\* pointer-up that follows it while the debounce timer is pending invokes
\* onResize or requests a frame.
C10_ClickEmitsNothing ==
    [][ ( (mouse = "IDLE" /\ click = "IDLE" /\ lastEvent' = "GIMBAL_DOWN")
          \/ (mouse = "ACTIVE" /\ click = "WAIT" /\ lastEvent' = "GLOBAL_UP") )
        => (out' = <<>> /\ frames' = frames)
      ]_vars

\* C10 witness: the press and the release have both been handled, the
\* debounce timer of the press is still pending, and nothing was emitted.
C10_Witness ==
    /\ lastEvent = "GLOBAL_UP"
    /\ click = "DRAG"
    /\ mouse = "ACTIVE"
    /\ timers = <<TRUE>>
    /\ out = <<>>
    /\ frames = <<>>

\* C11: once a global pointer-down (a press that is not on the handle) has
\* been handled, ActivationState is Idle, whichever of Wait, Dragging or
\* Idle the DragState was in, and the step itself invoked onResize with
\* nothing.
C11_GlobalDownDeactivates ==
    lastEvent = "GLOBAL_DOWN" => (mouse = "IDLE" /\ out = <<>>)

\* C11 witness: the press elsewhere was handled in Wait/Active, which only
\* it can turn into Wait/Idle; the idle-class revert it scheduled is
\* pending and the class is still the active one.
C11_Witness ==
    /\ lastEvent = "GLOBAL_DOWN"
    /\ click = "WAIT"
    /\ mouse = "IDLE"
    /\ reverts = 1
    /\ currentClass = "active"

\* A finished direct call of getAbsoluteBounds.
BoundsResolved == call.fn = "getAbsoluteBounds" /\ call.done

\* The two candidates of each bound, in pixels: the percent-derived one and
\* the pixel one, with the defaults of the omitted arguments.
MaximumCandidates(a) ==
    << getPixelsFromPercentage(OrElse(a.maxPc, 100), a.absoluteLimit),
       OrElse(a.maxPx, a.absoluteLimit) >>
MinimumCandidates(a) ==
    << getPixelsFromPercentage(OrElse(a.minPc, 0), a.absoluteLimit),
       OrElse(a.minPx, 0) >>

\* The bounds getAbsoluteBounds selects, before it clamps them.
EffectiveMaximum(a) ==
    getPreferredValue(MaximumCandidates(a)[1], MaximumCandidates(a)[2],
                      a.preferredMax = "pixels")
EffectiveMinimum(a) ==
    getPreferredValue(MinimumCandidates(a)[1], MinimumCandidates(a)[2],
                      a.preferredMin = "percent")

Larger(a, b) == IF a >= b THEN a ELSE b
Smaller(a, b) == IF a <= b THEN a ELSE b

\* C12: whenever the selected minimum does not exceed the selected maximum
\* before clamping, getAbsoluteBounds returns bounds with
\* 0 <= minimum <= maximum <= containerLimit, reversed axis or not.
C12_BoundsOrderedWithinLimit ==
    (BoundsResolved
        /\ EffectiveMinimum(call.args) <= EffectiveMaximum(call.args))
    => /\ 0 <= call.result[2]
       /\ call.result[2] <= call.result[1]
       /\ call.result[1] <= call.args.absoluteLimit

\* The maximum a call resolved, read back on the non-reversed axis.
ResolvedMaximum ==
    IF call.args.isReverse
    THEN call.args.absoluteLimit - call.result[2]
    ELSE call.result[1]

\* C13 (as claimed): the resolved maximum is the larger of the two
\* candidates (capped at the container limit) whatever preferredMax is.
C13_MaximumIsLargerCandidate ==
    BoundsResolved =>
        ResolvedMaximum =
            Smaller(call.args.absoluteLimit,
                    Larger(MaximumCandidates(call.args)[1],
                           MaximumCandidates(call.args)[2]))

\* C13 (amended): the resolved maximum is the larger of the two candidates
\* only when preferredMax is 'pixels'; when it is 'percent' or omitted it
\* is the smaller of the two.  Either way it is capped at the container
\* limit.
C13_MaximumFollowsPreference ==
    BoundsResolved =>
        LET c == MaximumCandidates(call.args)
        IN  ResolvedMaximum =
                Smaller(call.args.absoluteLimit,
                        IF call.args.preferredMax = "pixels"
                        THEN Larger(c[1], c[2])
                        ELSE Smaller(c[1], c[2]))

\* C13 witness: with preferredMax omitted, 80% of a limit of 500 and 200
\* pixels resolve to the maximum 200.
C13_Witness ==
    /\ BoundsResolved
    /\ ~call.args.isReverse
    /\ call.args.preferredMax = "undefined"
    /\ call.args.absoluteLimit = 500
    /\ call.args.maxPc = Some(80)
    /\ call.args.maxPx = Some(200)
    /\ call.result[1] = 200

\* C14: both bounds a call of getAbsoluteBounds returns lie within
\* [0, containerLimit], for malformed arguments too.
C14_BoundsWithinLimit ==
    BoundsResolved =>
        /\ 0 <= call.result[1] /\ call.result[1] <= call.args.absoluteLimit
        /\ 0 <= call.result[2] /\ call.result[2] <= call.args.absoluteLimit

\* A finished direct call of getOffsets whose bounds have minimum > maximum.
OffsetsOfCrossedBounds ==
    /\ call.fn = "getOffsets"
    /\ call.done
    /\ call.args.minimum > call.args.maximum

\* C15 (as claimed): with minimum > maximum every resize computation
\* yields before = minimum - offset, whatever the position.
C15_CrossedBoundsGiveMinimum ==
    OffsetsOfCrossedBounds =>
        call.result.before = Px(call.args.minimum - call.args.factor)

\* C15 (amended): with minimum > maximum the range clamp returns minimum
\* for a position at or below minimum and maximum for a position above
\* minimum, so a resize computation yields before = minimum - offset in the
\* first case and before = maximum - offset in the second, and
\* after = limit - before in both.
C15_CrossedBoundsGiveEitherBound ==
    OffsetsOfCrossedBounds =>
        LET a == call.args
            before == (IF a.position <= a.minimum THEN a.minimum
                                                  ELSE a.maximum) - a.factor
        IN  call.result = [after |-> Px(a.limit - before),
                           before |-> Px(before)]

\* C15 witness: position 450 lies above minimum 300 > maximum 100, and the
\* computation yields before = 100 - 5.
C15_Witness ==
    /\ OffsetsOfCrossedBounds
    /\ call.args.position = 450
    /\ call.args.factor = 5
    /\ call.result = [after |-> "405px", before |-> "95px"]

\* C16 (as claimed): with a null anchor every event handed to onResize is
\* {before: "0px", after: "0px"}.
C16_NullAnchorEmitsZero ==
    props.anchorNull =>
        \A i \in DOMAIN out :
            out[i].values = [after |-> "0px", before |-> "0px"]

\* No minimum or maximum rule of the props supplies a pixels value.
NoPixelRules == props.maximum.pixels = None /\ props.minimum.pixels = None

\* The handle's thickness along the active axis.
Thickness == getSizeOf(props.divEl)[1]

\* C16 (amended): with a null anchor every event handed to onResize has
\* after = -before (the two sum to the measured size 0), and it is exactly
\* {before: "0px", after: "0px"} when the handle has no thickness and no
\* minimum or maximum rule supplies a pixels value.
C16_NullAnchorSumsToZero ==
    props.anchorNull =>
        \A i \in DOMAIN out :
            /\ out[i].measured = 0
            /\ PxValue(out[i].values.after) = -PxValue(out[i].values.before)
            /\ (Thickness = 0 /\ NoPixelRules) =>
                   out[i].values = [after |-> "0px", before |-> "0px"]

\* C16 witness: with a null anchor and a handle of no thickness, a frame
\* has delivered the event of a pointer-move.
C16_Witness ==
    /\ props.anchorNull
    /\ Thickness = 0
    /\ NoPixelRules
    /\ lastEvent = "frame"
    /\ Len(out) = 1
    /\ out[1].values = [after |-> "0px", before |-> "0px"]

\* C17: a debounce timer that fires after DragState has changed at any
\* time since its pointer-down (the note at the head of timers is TRUE)
\* alters neither DragState nor ActivationState.
C17_StaleTimerIsNoOp ==
    [][ (lastEvent' = "timeout" /\ timers # <<>> /\ Head(timers))
            => (click' = click /\ mouse' = mouse)
      ]_vars

\* C18: every resize computation (a pointer-move handled while Active, a
\* double-click that emits) uses bounds that are the ones resolved from the
\* container size as currently measured, a window resize having needed no
\* re-render to bring them up to date.
C18_BoundsFollowMeasuredSize ==
    ( (lastEvent = "dblclick" /\ out # <<>>)
      \/ (lastEvent = "mousemove" /\ mouse = "ACTIVE") )
    => bound = BoundsEffect(limit)

\* A finished round trip: pixels to a percentage and back, one limit.
RoundTripped == call.fn = "getPixelsFromPercentage" /\ call.done

Distance(a, b) == IF a >= b THEN a - b ELSE b - a

\* C19 (as claimed): for every limit >= 0 and 0 <= p <= limit the round
\* trip returns a number that differs from p by at most 1.
C19_RoundTripWithinOne ==
    RoundTripped =>
        /\ call.result.kind = "finite"
        /\ Distance(call.result.value, call.args.of) <= 1

\* C19 (amended): the round trip returns a number within 1 of p for every
\* limit from 1 to 3000 and 0 <= p <= limit; for limit 0 it returns NaN.
C19_RoundTripWithinOneUpTo3000 ==
    RoundTripped =>
        /\ (1 <= call.args.limit /\ call.args.limit <= 3000) =>
              /\ call.result.kind = "finite"
              /\ Distance(call.result.value, call.args.of) <= 1
        /\ call.args.limit = 0 => call.result = NaN

\* C19 witness: with limit 3000, 1 pixel is 0.0% and comes back as 0.
C19_Witness ==
    /\ RoundTripped
    /\ call.args.limit = 3000
    /\ call.args.of = 1
    /\ call.args.percentage = Finite(0)
    /\ call.result = Finite(0)

\* C20: whenever no idle-class revert is pending, the visual state is
\* 'active' exactly when ActivationState is Active; a revert that fires
\* after a later press on the handle leaves the class 'active'.
C20_ClassFollowsActivation ==
    reverts = 0 => (currentClass = "active" <=> mouse = "ACTIVE")

\* C21: once the five events of a double-click gesture on the handle have
\* been handled from Idle/Idle, whenever the debounce timers ran in between,
\* ActivationState is Idle: no pointer-move after the gesture requests a
\* frame, and no move-originated event reaches onResize.
C21_DoubleClickEndsIdle ==
    gesture = DoubleClickGesture =>
        /\ mouse = "IDLE"
        /\ frames = <<>>
        /\ \A i \in DOMAIN out : out[i].source # "move"

\* C22 (as claimed): every move-originated event is delivered to onResize
\* while ActivationState is Active.
C22_MoveEventsOnlyWhileActive ==
    \A i \in DOMAIN out : out[i].source = "move" => mouse = "ACTIVE"

\* C22 (amended): every move-originated event delivered to onResize was
\* computed by a pointer-move handled while ActivationState was Active, a
\* pointer-move handled while Idle requesting no frame; the events are
\* delivered by the next animation frame, all that were requested and
\* whatever ActivationState has become by then.
C22_MoveEventsComputedWhileActive ==
    [][ /\ (frames' # frames /\ frames' # <<>>) =>
               /\ mouse = "ACTIVE"
               /\ lastEvent' = "mousemove"
               /\ Len(frames') = Len(frames) + 1
               /\ SubSeq(frames', 1, Len(frames)) = frames
        /\ (mouse = "IDLE" /\ lastEvent' = "mousemove") => frames' = frames
        /\ (\E i \in DOMAIN out' : out'[i].source = "move") =>
               (out' = frames /\ frames' = <<>>)
        /\ (frames # <<>> /\ lastEvent' = "frame") => out' = frames
      ]_vars

\* C22 witness: a frame has delivered the event of a pointer-move after a
\* global pointer-up deactivated the gimbal.
C22_Witness ==
    /\ lastEvent = "frame"
    /\ mouse = "IDLE"
    /\ click = "DRAG"
    /\ Len(out) = 1
    /\ out[1].source = "move"

====
